---- MODULE Spec2Model ----
(***************************************************************************)
(* S3StreamWriter (src/s3_upload/s3_writer.py): a file-like object that    *)
(* batches written bytes into parts of a multipart upload.  The object's   *)
(* fields are the variables; every method is an operator from the object   *)
(* and the store's request log to the set of its possible outcomes (one    *)
(* per way the store's calls can return or raise); every action is one     *)
(* call made by the code that uses the writer in a `with` block.           *)
(***************************************************************************)
EXTENDS Integers, Sequences, FiniteSets

VARIABLES
    pc,                     \* where the caller is: "start", "with", "exited", "ctor_failed"
    min_part_bytes,         \* self.min_part_bytes
    multipart_id,           \* self.multipart_id
    _multipart_parts,       \* self._multipart_parts
    _current_part_lines,    \* self._current_part_lines
    _current_part_bytes,    \* self._current_part_bytes
    _total_bytes,           \* self._total_bytes
    _total_parts,           \* self._total_parts
    client,                 \* self.client: the requests sent to the store, in order
    raised,                 \* the exception the last call delivered to the caller
    last_op,                \* the last call the caller made
    last_kind,              \* the kind of value the last write call was given
    written,                \* every byte accepted by write, in order
    exit_type,              \* the `type` argument __exit__ received
    op_from,                \* the number of store requests made before the last call
    init_arg,               \* the min_part_bytes argument the constructor was given
    close_raised,           \* what close() raised inside __exit__
    ncalls,                 \* write and close calls the caller has made so far
    write_raised            \* whether a write call has raised so far

vars == <<pc, min_part_bytes, multipart_id, _multipart_parts, _current_part_lines,
          _current_part_bytes, _total_bytes, _total_parts, client, raised, last_op,
          last_kind, written, exit_type, op_from, init_arg, close_raised,
          ncalls, write_raised>>

----------------------------------------------------------------------------
(* Bounds of the model *)

(* the number of write and close calls the caller makes inside the block *)
MaxCalls == 4

(* S3_MIN_PART_BYTES is 5 * 1024**2 in the source.  The model scales it to  *)
(* 2 bytes, so that chunks of one and two bytes fall short of it, reach it  *)
(* and pass it.                                                             *)
S3_MIN_PART_BYTES == 2

----------------------------------------------------------------------------
(* Values *)

(* The arguments the caller passes to write: byte strings (b'', b'A',      *)
(* b'A\xa9'), a text string (u'\xe9', one character and two bytes of       *)
(* UTF-8) and a value that is neither (an int, None)                        *)
BinaryValues == {[kind |-> "binary", data |-> d] : d \in {<<>>, <<65>>, <<65, 169>>}}
TextValues == {[kind |-> "text", data |-> <<233>>]}
OtherValues == {[kind |-> "other", data |-> <<>>]}
WriteArgs == BinaryValues \cup TextValues \cup OtherValues

(* The min_part_bytes the caller passes to the constructor *)
MinPartBytesArgs == {S3_MIN_PART_BYTES - 1, S3_MIN_PART_BYTES, S3_MIN_PART_BYTES + 1}

(* The ETag the store returns for a part: the digest of its body *)
ETag(body) == <<"md5">> \o body

(* text.encode('utf8'), for code points below U+0800 *)
EncodeChar(c) ==
    IF c < 128 THEN <<c>> ELSE <<192 + (c \div 64), 128 + (c % 64)>>

RECURSIVE encode_utf8(_)
encode_utf8(text) ==
    IF text = <<>> THEN <<>> ELSE EncodeChar(Head(text)) \o encode_utf8(Tail(text))

(* b''.join(lines) *)
RECURSIVE join(_)
join(lines) ==
    IF lines = <<>> THEN <<>> ELSE Head(lines) \o join(Tail(lines))

----------------------------------------------------------------------------
(* The object and the store's request log *)

Self ==
    [min_part_bytes |-> min_part_bytes,
     multipart_id |-> multipart_id,
     _multipart_parts |-> _multipart_parts,
     _current_part_lines |-> _current_part_lines,
     _current_part_bytes |-> _current_part_bytes,
     _total_bytes |-> _total_bytes,
     _total_parts |-> _total_parts]

Request(op, ok, number, body, parts, etag) ==
    [op |-> op, ok |-> ok, PartNumber |-> number, Body |-> body, Parts |-> parts,
     ETag |-> etag]

Outcome(self, log, exc) == [self |-> self, client |-> log, exc |-> exc]

----------------------------------------------------------------------------
(* The methods of S3StreamWriter.  Each returns the set of its outcomes:   *)
(* the object and the request log as the call leaves them, and the         *)
(* exception it raises ("none" when it returns).                           *)

NoObject ==
    [min_part_bytes |-> 0, multipart_id |-> "none", _multipart_parts |-> <<>>,
     _current_part_lines |-> <<>>, _current_part_bytes |-> 0, _total_bytes |-> 0,
     _total_parts |-> 0]

(* __init__ with the size check made after the upload is created *)
__init___checks_late(mpb) ==
    IF mpb < S3_MIN_PART_BYTES
    THEN {Outcome(NoObject,
                  <<Request("create_multipart_upload", TRUE, 0, <<>>, <<>>, <<>>)>>,
                  "ValueError")}
    ELSE {Outcome([NoObject EXCEPT !.min_part_bytes = mpb, !.multipart_id = "UploadId"],
                  <<Request("create_multipart_upload", TRUE, 0, <<>>, <<>>, <<>>)>>,
                  "none")}

__init__(mpb) ==
    IF mpb < S3_MIN_PART_BYTES
    THEN {Outcome(NoObject, <<>>, "ValueError")}
    ELSE {Outcome(NoObject,
                  <<Request("create_multipart_upload", FALSE, 0, <<>>, <<>>, <<>>)>>,
                  "CreateError"),
          Outcome([NoObject EXCEPT !.min_part_bytes = mpb, !.multipart_id = "UploadId"],
                  <<Request("create_multipart_upload", TRUE, 0, <<>>, <<>>, <<>>)>>,
                  "none")}

(* _reset_part that forgets to empty the list of pending chunks *)
_reset_part_keeps_lines(self) ==
    [self EXCEPT !._current_part_bytes = 0]

(* _reset_part that forgets to zero the count of pending bytes *)
_reset_part_keeps_bytes(self) ==
    [self EXCEPT !._current_part_lines = <<>>]

_reset_part(self) ==
    [self EXCEPT !._current_part_lines = <<>>, !._current_part_bytes = 0]

(* _upload_part that leaves the pending part in place after the upload *)
_upload_part_keeps_pending(self, log) ==
    LET stream_buffer == join(self._current_part_lines)
        number == self._total_parts + 1
        sent(ok, etag) ==
            Append(log, Request("upload_part", ok, number, stream_buffer, <<>>, etag))
    IN  {Outcome([self EXCEPT !._total_parts = number], sent(FALSE, <<>>),
                 "UploadPartError"),
         Outcome([self EXCEPT !._total_parts = number,
                              !._multipart_parts =
                                  Append(@, [ETag |-> ETag(stream_buffer),
                                             PartNumber |-> number])],
                 sent(TRUE, ETag(stream_buffer)), "none")}

(* _upload_part that counts the part only once the store has accepted it *)
_upload_part_counts_late(self, log) ==
    LET stream_buffer == join(self._current_part_lines)
        number == self._total_parts + 1
        counted == [self EXCEPT !._total_parts = number]
        sent(ok, etag) ==
            Append(log, Request("upload_part", ok, number, stream_buffer, <<>>, etag))
    IN  {Outcome(self, sent(FALSE, <<>>), "UploadPartError"),
         Outcome(_reset_part([counted EXCEPT !._multipart_parts =
                                  Append(@, [ETag |-> ETag(stream_buffer),
                                             PartNumber |-> number])]),
                 sent(TRUE, ETag(stream_buffer)), "none")}

(* _upload_part that records the part before the store has accepted it *)
_upload_part_records_first(self, log) ==
    LET stream_buffer == join(self._current_part_lines)
        number == self._total_parts + 1
        recorded == [self EXCEPT !._total_parts = number,
                                 !._multipart_parts =
                                     Append(@, [ETag |-> ETag(stream_buffer),
                                                PartNumber |-> number])]
        sent(ok, etag) ==
            Append(log, Request("upload_part", ok, number, stream_buffer, <<>>, etag))
    IN  {Outcome(recorded, sent(FALSE, <<>>), "UploadPartError"),
         Outcome(_reset_part(recorded), sent(TRUE, ETag(stream_buffer)), "none")}

_upload_part(self, log) ==
    LET stream_buffer == join(self._current_part_lines)
        counted == [self EXCEPT !._total_parts = @ + 1]
        number == counted._total_parts
        sent(ok, etag) ==
            Append(log, Request("upload_part", ok, number, stream_buffer, <<>>, etag))
        recorded(etag) ==
            [counted EXCEPT !._multipart_parts =
                 Append(@, [ETag |-> etag, PartNumber |-> number])]
        multipart_part == [ETag |-> ETag(stream_buffer)]
    IN  {Outcome(counted, sent(FALSE, <<>>), "UploadPartError"),
         Outcome(_reset_part(recorded(multipart_part.ETag)),
                 sent(TRUE, multipart_part.ETag), "none")}

_complete(self, log) ==
    LET sent(ok) ==
            Append(log, Request("complete_multipart_upload", ok, 0, <<>>,
                                self._multipart_parts, <<>>))
    IN  {Outcome(self, sent(FALSE), "CompleteError"), Outcome(self, sent(TRUE), "none")}

_abort(self, log) ==
    LET sent(ok) == Append(log, Request("abort_multipart_upload", ok, 0, <<>>, <<>>, <<>>))
    IN  {Outcome(self, sent(FALSE), "AbortError"), Outcome(self, sent(TRUE), "none")}

(* write with the chunk appended before its type is checked *)
write_appends_first(self, log, binary_value) ==
    LET appended == [self EXCEPT !._current_part_lines = Append(@, binary_value.data)]
    IN  IF binary_value.kind = "other"
        THEN {Outcome(appended, log, "TypeError")}
        ELSE {Outcome(appended, log, "none")}

(* write that flushes only above min_part_bytes, not at it *)
write_flushes_above(self, log, binary_value) ==
    LET encoded ==
            IF binary_value.kind = "text"
            THEN [kind |-> "binary", data |-> encode_utf8(binary_value.data)]
            ELSE binary_value
    IN  IF encoded.kind # "binary"
        THEN {Outcome(self, log, "TypeError")}
        ELSE LET value_bytes == Len(encoded.data)
                 appended ==
                     [self EXCEPT !._current_part_lines = Append(@, encoded.data),
                                  !._current_part_bytes = @ + value_bytes,
                                  !._total_bytes = @ + value_bytes]
             IN  IF appended._current_part_bytes > appended.min_part_bytes
                 THEN _upload_part(appended, log)
                 ELSE {Outcome(appended, log, "none")}

write(self, log, binary_value) ==
    LET encoded ==
            IF binary_value.kind = "text"
            THEN [kind |-> "binary", data |-> encode_utf8(binary_value.data)]
            ELSE binary_value
    IN  IF encoded.kind # "binary"
        THEN {Outcome(self, log, "TypeError")}
        ELSE LET value_bytes == Len(encoded.data)
                 appended ==
                     [self EXCEPT !._current_part_lines = Append(@, encoded.data),
                                  !._current_part_bytes = @ + value_bytes,
                                  !._total_bytes = @ + value_bytes]
             IN  IF appended._current_part_bytes >= appended.min_part_bytes
                 THEN _upload_part(appended, log)
                 ELSE {Outcome(appended, log, "none")}

(* seek that rewinds by dropping the pending part *)
seek_resets_part(self, log) == {Outcome(_reset_part(self), log, "NotImplementedError")}

seek(self, log) == {Outcome(self, log, "NotImplementedError")}

(* close without the test for an empty input *)
close_flushes_empty(self, log) ==
    LET uploads == _upload_part(self, log)
    IN  {u \in uploads : u.exc # "none"}
        \cup UNION {_complete(u.self, u.client) : u \in {x \in uploads : x.exc = "none"}}

close(self, log) ==
    IF self._total_bytes = 0
    THEN _abort(self, log)
    ELSE LET uploads == _upload_part(self, log)
         IN  {u \in uploads : u.exc # "none"}
             \cup UNION {_complete(u.self, u.client) : u \in {x \in uploads : x.exc = "none"}}

(* __exit__(type, value, traceback): exc is what leaves the with statement, *)
(* close_exc what close() raised                                            *)
ExitOutcome(out, exc, close_exc) ==
    [self |-> out.self, client |-> out.client, exc |-> exc, close_exc |-> close_exc]

__exit__(self, log, type) ==
    IF type # "none"
    THEN {ExitOutcome(a, IF a.exc = "none" THEN type ELSE a.exc, "none") :
              a \in _abort(self, log)}
    ELSE LET closes == close(self, log)
         IN  {ExitOutcome(c, "none", "none") : c \in {x \in closes : x.exc = "none"}}
             \cup UNION {{ExitOutcome(a, IF a.exc = "none" THEN c.exc ELSE a.exc, c.exc) :
                              a \in _abort(c.self, c.client)} :
                         c \in {x \in closes : x.exc # "none"}}

----------------------------------------------------------------------------
(* The caller: S3StreamWriter(...) and a with block that writes, seeks and  *)
(* closes, then leaves the block normally or with an exception              *)

Store(out) ==
    /\ min_part_bytes' = out.self.min_part_bytes
    /\ multipart_id' = out.self.multipart_id
    /\ _multipart_parts' = out.self._multipart_parts
    /\ _current_part_lines' = out.self._current_part_lines
    /\ _current_part_bytes' = out.self._current_part_bytes
    /\ _total_bytes' = out.self._total_bytes
    /\ _total_parts' = out.self._total_parts
    /\ client' = out.client
    /\ raised' = out.exc

Init ==
    /\ pc = "start"
    /\ min_part_bytes = 0
    /\ multipart_id = "none"
    /\ _multipart_parts = <<>>
    /\ _current_part_lines = <<>>
    /\ _current_part_bytes = 0
    /\ _total_bytes = 0
    /\ _total_parts = 0
    /\ client = <<>>
    /\ raised = "none"
    /\ last_op = "none"
    /\ last_kind = "none"
    /\ written = <<>>
    /\ exit_type = "none"
    /\ op_from = 0
    /\ init_arg = 0
    /\ close_raised = "none"
    /\ ncalls = 0
    /\ write_raised = FALSE

Construct ==
    /\ pc = "start"
    /\ \E mpb \in MinPartBytesArgs : \E out \in __init__(mpb) :
           /\ Store(out)
           /\ pc' = IF out.exc = "none" THEN "with" ELSE "ctor_failed"
           /\ init_arg' = mpb
    /\ last_op' = "__init__"
    /\ last_kind' = "none"
    /\ op_from' = Len(client)
    /\ UNCHANGED <<written, exit_type, close_raised, ncalls, write_raised>>

Write ==
    /\ pc = "with"
    /\ ncalls < MaxCalls
    /\ \E binary_value \in WriteArgs : \E out \in write(Self, client, binary_value) :
           /\ Store(out)
           /\ last_kind' = binary_value.kind
           /\ write_raised' = (write_raised \/ out.exc # "none")
           /\ written' = IF out.exc = "TypeError" THEN written
                         ELSE written \o (IF binary_value.kind = "text"
                                          THEN encode_utf8(binary_value.data)
                                          ELSE binary_value.data)
    /\ last_op' = "write"
    /\ op_from' = Len(client)
    /\ ncalls' = ncalls + 1
    /\ UNCHANGED <<pc, exit_type, init_arg, close_raised>>

Seek ==
    /\ pc = "with"
    /\ \E out \in seek(Self, client) : Store(out)
    /\ last_op' = "seek"
    /\ last_kind' = "none"
    /\ op_from' = Len(client)
    /\ UNCHANGED <<pc, written, exit_type, init_arg, close_raised, ncalls, write_raised>>

Close ==
    /\ pc = "with"
    /\ ncalls < MaxCalls
    /\ \E out \in close(Self, client) : Store(out)
    /\ last_op' = "close"
    /\ last_kind' = "none"
    /\ op_from' = Len(client)
    /\ ncalls' = ncalls + 1
    /\ UNCHANGED <<pc, written, exit_type, init_arg, close_raised, write_raised>>

(* the block ends without an exception *)
ExitNormal ==
    /\ pc = "with"
    /\ \E out \in __exit__(Self, client, "none") :
           /\ Store(out)
           /\ close_raised' = out.close_exc
    /\ pc' = "exited"
    /\ last_op' = "__exit__"
    /\ last_kind' = "none"
    /\ exit_type' = "none"
    /\ op_from' = Len(client)
    /\ UNCHANGED <<written, init_arg, ncalls, write_raised>>

(* the block ends with an exception: the one the last call raised, left     *)
(* uncaught, or one raised by the block's own code                          *)
ExitRaise ==
    /\ pc = "with"
    /\ \E type \in ({raised} \ {"none"}) \cup {"RuntimeError"} :
           /\ \E out \in __exit__(Self, client, type) :
                  /\ Store(out)
                  /\ close_raised' = out.close_exc
           /\ exit_type' = type
    /\ pc' = "exited"
    /\ last_op' = "__exit__"
    /\ last_kind' = "none"
    /\ op_from' = Len(client)
    /\ UNCHANGED <<written, init_arg, ncalls, write_raised>>

Next ==
    \/ Construct
    \/ Write
    \/ Seek
    \/ Close
    \/ ExitNormal
    \/ ExitRaise

Spec == Init /\ [][Next]_vars

----------------------------------------------------------------------------
(* Reading the request log *)

Last(log) == log[Len(log)]

(* the requests the last call sent *)
OpCalls == SubSeq(client, op_from + 1, Len(client))

Ops(log, op) == SelectSeq(log, LAMBDA r : r.op = op)

Issued(log, op) == \E i \in 1..Len(log) : log[i].op = op

Succeeded(log, op) == \E i \in 1..Len(log) : log[i].op = op /\ log[i].ok

AllOk(log) == \A i \in 1..Len(log) : log[i].ok

UploadCalls == Ops(client, "upload_part")

(* the body the store holds for part `number`: that of the upload_part     *)
(* request with this PartNumber that succeeded                             *)
BodyOfPart(log, number) ==
    LET hits == {i \in 1..Len(log) : /\ log[i].op = "upload_part"
                                     /\ log[i].ok
                                     /\ log[i].PartNumber = number}
    IN  IF hits = {} THEN <<>> ELSE log[CHOOSE i \in hits : \A j \in hits : i <= j].Body

(* the object a complete_multipart_upload request assembles: the bodies of *)
(* the parts it lists, in the order of the list                            *)
ObjectOf(log, parts) ==
    join([i \in 1..Len(parts) |-> BodyOfPart(log, parts[i].PartNumber)])

(* the last call was a close (the caller's, or the one __exit__ makes) that *)
(* ended with the store accepting complete_multipart_upload                 *)
JustFinalized ==
    /\ last_op \in {"close", "__exit__"}
    /\ raised = "none"
    /\ OpCalls # <<>>
    /\ Last(OpCalls).op = "complete_multipart_upload"
    /\ Last(OpCalls).ok

Ceil(a, b) == (a + b - 1) \div b

----------------------------------------------------------------------------
(* C1: when the with block has been left, the session has exactly one      *)
(* terminal disposition: a successful complete and no abort, or an abort   *)
(* and no successful complete.  Violated: a block that calls close()       *)
(* itself is closed a second time by __exit__.                             *)
C1_ExactlyOneDisposition ==
    pc = "exited" =>
        LET completed == Succeeded(client, "complete_multipart_upload")
            aborted == Issued(client, "abort_multipart_upload")
        IN  (completed \/ aborted) /\ ~(completed /\ aborted)

(* C2: when the block raises, __exit__ sends one abort request, no         *)
(* complete and no upload_part request, and the block's own exception is   *)
(* the one the caller receives.  Violated: a failing abort request         *)
(* replaces the block's exception.                                         *)
C2_BlockErrorAbortsAndPropagates ==
    (pc = "exited" /\ exit_type # "none") =>
        /\ Len(OpCalls) = 1
        /\ OpCalls[1].op = "abort_multipart_upload"
        /\ raised = exit_type

C4_PartsConcatenateToWritten ==
    JustFinalized => ObjectOf(client, Last(OpCalls).Parts) = written

C4_Witness ==
    /\ JustFinalized
    /\ Len(Last(OpCalls).Parts) >= 2
    /\ Len(written) >= 4
    /\ \E i \in 1..Len(client) : client[i].op = "upload_part" /\ ~client[i].ok

(* C5: the PartNumbers of the upload_part requests sent so far, failed     *)
(* ones included, are 1, 2, ..., _total_parts in this order.               *)
C5_PartNumbersContiguous ==
    /\ Len(UploadCalls) = _total_parts
    /\ \A i \in 1..Len(UploadCalls) : UploadCalls[i].PartNumber = i

C5_Witness ==
    /\ _total_parts >= 3
    /\ \E i \in 1..Len(UploadCalls) : ~UploadCalls[i].ok
    /\ \E i \in 1..Len(UploadCalls) : UploadCalls[i].ok
    /\ pc = "exited"

(* C6: a close that finds the pending buffer empty because the last write   *)
(* flushed it sends no upload_part request, so no part of zero bytes        *)
(* reaches the store (stated for the runs in which the store accepts every  *)
(* request).  Violated: close calls _upload_part whenever _total_bytes is   *)
(* not zero.                                                                *)
C6_CloseAfterFlushUploadsNothing ==
    [][(/\ pc = "with"
        /\ last_op = "write"
        /\ raised = "none"
        /\ Issued(OpCalls, "upload_part")
        /\ _current_part_bytes = 0
        /\ last_op' \in {"close", "__exit__"}
        /\ exit_type' = "none"
        /\ AllOk(client'))
       => (/\ ~Issued(SubSeq(client', Len(client) + 1, Len(client')), "upload_part")
           /\ \A i \in 1..Len(client') :
                  client'[i].op = "upload_part" => client'[i].Body # <<>>)]_vars

(* C7: in a run of writes that all flush at exactly min_part_bytes, with    *)
(* min_part_bytes or more bytes in total, the finalized session has         *)
(* ceil(_total_bytes / min_part_bytes) parts.  Violated: when the total is  *)
(* a multiple of min_part_bytes, close adds the empty part of C6.           *)
C7_AlignedPartCount ==
    (/\ pc = "exited"
     /\ JustFinalized
     /\ AllOk(client)
     /\ Len(Ops(client, "complete_multipart_upload")) = 1
     /\ _total_bytes >= min_part_bytes
     /\ \A i \in 1..(Len(UploadCalls) - 1) : Len(UploadCalls[i].Body) = min_part_bytes)
    => Len(UploadCalls) = Ceil(_total_bytes, min_part_bytes)

(* C8: when close fails inside __exit__ in its flush or its complete step,  *)
(* an abort request is sent and the caller receives close's exception,      *)
(* whether the abort request succeeds or not.  Violated: a failing abort    *)
(* request raises inside the except block and replaces close's exception.   *)
C8_CloseErrorSurvivesAbort ==
    (pc = "exited" /\ close_raised \in {"UploadPartError", "CompleteError"}) =>
        /\ Last(OpCalls).op = "abort_multipart_upload"
        /\ raised = close_raised

C10_SmallPartSizeRejectedBeforeAnyRequest ==
    (last_op = "__init__" /\ init_arg < S3_MIN_PART_BYTES) =>
        /\ raised = "ValueError"
        /\ client = <<>>
        /\ multipart_id = "none"
        /\ pc = "ctor_failed"

C10_Witness ==
    /\ last_op = "__init__"
    /\ init_arg = S3_MIN_PART_BYTES - 1
    /\ raised = "ValueError"

(* C11: _total_parts is the number of committed parts: an upload_part       *)
(* request that fails leaves _total_parts, _multipart_parts and the         *)
(* pending buffer as they were.  Violated: _upload_part adds 1 to           *)
(* _total_parts before it sends the request.                                *)
C11_CounterMatchesCommittedParts ==
    _total_parts = Len(_multipart_parts)

(* C12: at most one abort request is sent for a session, on every exit      *)
(* path.  Violated: when close() is called with nothing written and the     *)
(* abort request fails, __exit__ catches the error and sends it again.      *)
C12_AbortIssuedAtMostOnce ==
    Len(Ops(client, "abort_multipart_upload")) <= 1

(* C13: after any writes and closes inside the block and a normal exit, at  *)
(* most one complete request has been sent and no upload_part request       *)
(* follows a successful complete.  Violated: __exit__ calls close() on a    *)
(* session the caller has closed already.                                   *)
C13_NoSecondFinalization ==
    (pc = "exited" /\ exit_type = "none") =>
        /\ Len(Ops(client, "complete_multipart_upload")) <= 1
        /\ \A i, j \in 1..Len(client) :
               (/\ i < j
                /\ client[i].op = "complete_multipart_upload"
                /\ client[i].ok) => client[j].op # "upload_part"

(* C14: a write call sends an upload_part request exactly when, with its    *)
(* chunk appended, _current_part_bytes >= min_part_bytes; it sends at most  *)
(* one request, whose body is the whole pending buffer, chunk included;    *)
(* and when it has flushed and returns, the pending buffer is empty and     *)
(* _current_part_bytes is 0.  A write that raises TypeError appends nothing *)
(* and sends nothing.                                                       *)
C14_WriteFlushesOnceAtThreshold ==
    [][(pc = "with" /\ last_op' = "write" /\ ncalls' = ncalls + 1) =>
           LET sent == SubSeq(client', Len(client) + 1, Len(client'))
               chunk == SubSeq(written', Len(written) + 1, Len(written'))
               pending == _current_part_bytes + Len(chunk)
           IN  /\ SubSeq(client', 1, Len(client)) = client
               /\ Len(sent) <= 1
               /\ \A i \in 1..Len(sent) : sent[i].op = "upload_part"
               /\ raised' = "TypeError" => sent = <<>>
               /\ raised' # "TypeError" =>
                      /\ sent # <<>> <=> pending >= min_part_bytes
                      /\ sent # <<>> =>
                             /\ sent[1].Body = join(_current_part_lines) \o chunk
                             /\ Len(sent[1].Body) = pending
                             /\ raised' = "none" =>
                                    /\ _current_part_lines' = <<>>
                                    /\ _current_part_bytes' = 0
                                    /\ sent[1].ok
                      /\ sent = <<>> =>
                             /\ raised' = "none"
                             /\ _current_part_lines' = Append(_current_part_lines, chunk)
                             /\ _current_part_bytes' = pending]_vars

(* a write that flushed a backlog larger than min_part_bytes as one part *)
C14_Witness ==
    /\ last_op = "write"
    /\ raised = "none"
    /\ Len(OpCalls) = 1
    /\ OpCalls[1].op = "upload_part"
    /\ Len(OpCalls[1].Body) > min_part_bytes
    /\ _current_part_lines = <<>>
    /\ _total_parts >= 2

(* C15: every complete request comes right after an upload_part request    *)
(* that succeeded (close's final flush), and the part list it supplies is   *)
(* the committed parts: one (PartNumber, ETag) pair for each upload_part    *)
(* request that succeeded before it, in the order of the requests, with     *)
(* the ETag the store returned, PartNumbers ascending.  A final flush that  *)
(* fails is therefore followed by no complete request.                      *)
C15_CompleteListsCommittedParts ==
    \A i \in 1..Len(client) :
        client[i].op = "complete_multipart_upload" =>
            LET done == SelectSeq(SubSeq(client, 1, i - 1),
                                  LAMBDA r : r.op = "upload_part" /\ r.ok)
                parts == client[i].Parts
            IN  /\ _total_bytes > 0
                /\ i > 1
                /\ client[i - 1].op = "upload_part"
                /\ client[i - 1].ok
                /\ Len(parts) = Len(done)
                /\ \A k \in 1..Len(parts) :
                       /\ parts[k].PartNumber = done[k].PartNumber
                       /\ parts[k].ETag = done[k].ETag
                /\ \A k \in 1..(Len(parts) - 1) :
                       parts[k].PartNumber < parts[k + 1].PartNumber

(* a finalized session with two committed parts around a failed upload *)
C15_Witness ==
    /\ JustFinalized
    /\ Len(Last(OpCalls).Parts) = 2
    /\ Last(OpCalls).Parts[1].ETag # Last(OpCalls).Parts[2].ETag
    /\ Last(OpCalls).Parts[2].PartNumber = 3

(* C16: every part the store has accepted except the last one has at       *)
(* least min_part_bytes bytes, and min_part_bytes is at least               *)
(* S3_MIN_PART_BYTES.  Violated: a close() made by the caller uploads a     *)
(* short part and leaves the session open to further parts (the close       *)
(* __exit__ makes, or later writes).                                        *)
C16_OnlyLastPartShort ==
    pc \in {"with", "exited"} =>
        LET uploaded == SelectSeq(client, LAMBDA r : r.op = "upload_part" /\ r.ok)
        IN  /\ min_part_bytes >= S3_MIN_PART_BYTES
            /\ \A i \in 1..(Len(uploaded) - 1) :
                   Len(uploaded[i].Body) >= min_part_bytes

(* C17: seek raises NotImplementedError whatever the state of the session,  *)
(* sends no request and changes no field of the writer, so the calls that   *)
(* follow find the session as it was.                                       *)
C17_SeekChangesNothing ==
    [][last_op' = "seek" =>
           /\ raised' = "NotImplementedError"
           /\ UNCHANGED <<pc, min_part_bytes, multipart_id, _multipart_parts,
                          _current_part_lines, _current_part_bytes, _total_bytes,
                          _total_parts, client, written>>]_vars

(* a seek made with bytes pending, a part committed and an upload failed *)
C17_Witness ==
    /\ last_op = "seek"
    /\ raised = "NotImplementedError"
    /\ pc = "with"
    /\ _current_part_bytes > 0
    /\ _multipart_parts # <<>>
    /\ _total_parts > Len(_multipart_parts)
    /\ ncalls < MaxCalls

RECURSIVE SumBodies(_)
SumBodies(log) ==
    IF log = <<>> THEN 0 ELSE Len(Head(log).Body) + SumBodies(Tail(log))

RECURSIVE SumLens(_)
SumLens(lines) ==
    IF lines = <<>> THEN 0 ELSE Len(Head(lines)) + SumLens(Tail(lines))

(* C18: in every state, whichever requests have failed, _total_bytes is the *)
(* bytes of the parts the store has accepted plus _current_part_bytes, and  *)
(* _current_part_bytes is the bytes of the chunks in _current_part_lines.   *)
C18_BytesConserved ==
    /\ _total_bytes =
           SumBodies(SelectSeq(client, LAMBDA r : r.op = "upload_part" /\ r.ok))
           + _current_part_bytes
    /\ _current_part_bytes = SumLens(_current_part_lines)

(* bytes pending after one upload succeeded and a later one failed *)
C18_Witness ==
    /\ _current_part_bytes >= 2
    /\ Len(_current_part_lines) >= 2
    /\ _multipart_parts # <<>>
    /\ _total_bytes > _current_part_bytes
    /\ \E i \in 1..Len(client) : client[i].op = "upload_part" /\ ~client[i].ok

(* C19: a write call that returns leaves _current_part_bytes below          *)
(* min_part_bytes; so as long as no write call has raised, the pending      *)
(* bytes are below min_part_bytes, and a write of zero bytes sends no       *)
(* upload_part request.                                                     *)
C19_PendingBelowThresholdAfterWrite ==
    [][(pc = "with" /\ last_op' = "write" /\ ncalls' = ncalls + 1) =>
           /\ raised' = "none" => _current_part_bytes' < min_part_bytes
           /\ ~write_raised' => _current_part_bytes' < min_part_bytes
           /\ (~write_raised' /\ written' = written) => client' = client]_vars

(* a third write that returned with one byte pending, after a flush *)
C19_Witness ==
    /\ last_op = "write"
    /\ raised = "none"
    /\ ~write_raised
    /\ ncalls >= 3
    /\ OpCalls = <<>>
    /\ _total_parts >= 1
    /\ _current_part_bytes = min_part_bytes - 1

====
